---- MODULE Spec2Model ----
(***************************************************************************)
(* Playback sequencer and export controller of doc2Video.                  *)
(*                                                                         *)
(* Two components of the repository implement the pipeline:                *)
(*   Player       src/components/Player.tsx:16-459                         *)
(*   VideoPlayer  src/unnamed/part_000:96-542                              *)
(* Both are modelled over the same variables; `component` says which one   *)
(* is mounted.  Handlers are translated statement by statement as          *)
(* functions from a state record to a state record, so that a handler      *)
(* that calls another (togglePlay -> playScene -> stopAudio) is one step.  *)
(*                                                                         *)
(* Platform behaviour the handlers rely on:                                *)
(*  - AudioBufferSourceNode dispatches `ended` when the buffer has played  *)
(*    to its end AND when stop() ends it early; stop() on a node that has  *)
(*    already stopped has no effect.                                       *)
(*  - setTimeout callbacks are never cleared by the code (no clearTimeout  *)
(*    anywhere), so every scheduled timer eventually fires.                *)
(*  - MediaRecorder.stop() sets state to inactive at once and then         *)
(*    dispatches dataavailable followed by stop.                           *)
(*  - A callback runs the closure of the render in which it was created:   *)
(*    it sees the playbackSpeed / isExporting STATE of that render, and    *)
(*    the current value of every ref.                                      *)
(***************************************************************************)
EXTENDS Integers, Sequences, FiniteSets, Bags, TLC

(* ---------------- bounds of the model ---------------- *)
MaxScenes  == 2        \* scene lists of length 0..MaxScenes
MaxPending == 2        \* callbacks (sources, timers) alive at once
MaxExports == 2        \* export sessions alive at once
MaxDim     == 16       \* image / video frames of 1..MaxDim x 1..MaxDim
MaxWords   == 3        \* subtitles of 1..MaxWords words
MaxWordW   == 3        \* measured width of a word: 0..MaxWordW
MaxSpaceW  == 1        \* measured width of a space: 1..MaxSpaceW
MaxLineW   == 4        \* max line width: 1..MaxLineW
MaxSource  == 2        \* frames of whole scenes: sources of 0..MaxSource
MaxScript  == 2        \* generated scripts of 0..MaxScript scenes
MaxBytes   == 4        \* PCM inputs of 0..MaxBytes bytes
MaxChannels == 2       \* decoded into 1..MaxChannels channels

(* ---------------- program constants ---------------- *)
FallbackMs      == 3000     \* Player.tsx:184
VPFallbackMs    == 5000     \* part_000:308
SettleMs        == 100      \* Player.tsx:264
DefaultSpeed    == 100      \* Player.tsx:23  (1.0x, in hundredths)

\* the speed buttons, Player.tsx:340 (0.75x, 1.0x, 1.25x, 1.5x)
Speeds == {75, 100, 125, 150}

\* settings menu, Player.tsx:312, 326; part_000:408, 423
Resolutions == {"720p", "1080p"}

FrameRates == {24, 30, 60}

DefaultResolution == "1080p"

DefaultFps == 30

\* the types the export handlers ask for, Player.tsx:226-228
MimeTypes == {"video/webm;codecs=vp9", "video/webm"}

NULL == 0                   \* a ref holding null
Old  == -1                  \* the recorder / capture node of a finished,
                            \*   forgotten export session

VARIABLES
  appState,           \* App.tsx useState: "INPUT" | "GENERATING" |
                      \*   "PREVIEW" (the component is mounted)
  component,          \* "Player" | "VideoPlayer"
  scenes,             \* props.scenes : sequence of [audioBuffer : BOOLEAN]
  audioCtxState,      \* "null" | "suspended" | "running"
  isPlaying,          \* useState(false)
  currentSceneIdx,    \* useState(0)
  isExporting,        \* useState(false)
  isExportingRef,     \* useRef(false)            (Player only)
  audioSourceRef,     \* useRef(null) : "null" or "node"; the node it names
                      \*   is the source with held = TRUE, or a node that
                      \*   has ended when there is none
  exportDestRef,      \* useRef(null) : NULL or the export session of the node
  mediaRecorderRef,   \* useRef(null) : NULL or the export session of the recorder
  recordedChunksRef,  \* useRef([])   : sequence of chunks
  playbackSpeed,      \* useState(1.0), in hundredths
  resolution,         \* useState('1080p')
  fps,                \* useState(30)
  showSettings,       \* useState(false): the settings menu is open
  typeSupported,      \* the runtime: the types MediaRecorder.isTypeSupported
                      \*   accepts
  sessions,           \* one record per export request: its recorder and
                      \*   the files its stop handler downloaded
  pending,            \* bag of live audio sources and timers
  lastUser,           \* history: the latest user action
  lastEv,             \* history: the latest step of any kind
  pass,               \* history: the scenes started by an undisturbed pass
  hist,               \* whether this run records history (SpecHist) or
                      \*   leaves every history variable and field alone (Spec)
  draw                \* the frame compositor: the call being made and
                      \*   what it drew (SpecDraw), or the render loop: the
                      \*   frame callbacks requested and not yet run or
                      \*   cancelled, and animationFrameRef (SpecLoop), or a
                      \*   call of generateStoryContent (SpecGen), of
                      \*   handleSceneChange (SpecEdit), of decodeAudioData
                      \*   (SpecDecode)

vars == <<appState, component, scenes, audioCtxState, isPlaying, currentSceneIdx,
          isExporting, isExportingRef, audioSourceRef, exportDestRef,
          mediaRecorderRef, recordedChunksRef, playbackSpeed, resolution,
          fps, showSettings, typeSupported, sessions,
          pending, lastUser, lastEv, pass, hist, draw>>

N == Len(scenes)

\* rec: MediaRecorder.state ("none": not constructed); ev: the event the
\* recorder has still to deliver; delivered: the non-empty chunks it has
\* delivered, in delivery order; files: the blobs its stop handler
\* downloaded and names: their download names; resolution, fps: the
\* settings of the render whose export handler made the session; mimeType:
\* the type handed to the recorder ("none": not selected yet); thrown: the
\* step of the export handler that threw; played, ok: history of the pass
\* it records (see Track)
NoSession == [rec |-> "none", ev |-> "none", delivered |-> <<>>,
              files |-> <<>>, names |-> <<>>,
              resolution |-> "none", fps |-> 0, mimeType |-> "none",
              thrown |-> "none", played |-> 0, ok |-> TRUE]

(* The mutable program state as one record, threaded through the handlers. *)
S == [isPlaying |-> isPlaying, idx |-> currentSceneIdx,
      isExporting |-> isExporting, isExportingRef |-> isExportingRef,
      ref |-> audioSourceRef, dest |-> exportDestRef,
      rec |-> mediaRecorderRef, chunks |-> recordedChunksRef,
      sessions |-> sessions, pending |-> pending, ctx |-> audioCtxState,
      speed |-> playbackSpeed, resolution |-> resolution, fps |-> fps,
      showSettings |-> showSettings, scenes |-> scenes, calls |-> <<>>]

\* history: played counts the scenes started in order 0, 1, ... while the
\* recorder records; ok turns FALSE when a scene is started out of order or
\* the recorder is stopped before all of them were started.
RECURSIVE Walk(_, _)
Walk(x, calls) ==
  IF calls = <<>> THEN x
  ELSE Walk(IF Head(calls) >= N THEN x
            ELSE IF x.ok /\ Head(calls) = x.played
                 THEN [x EXCEPT !.played = @ + 1]
                 ELSE [x EXCEPT !.ok = FALSE],
            Tail(calls))

Track(s) ==
  [k \in 1..Len(s.sessions) |->
     LET x   == s.sessions[k]
         was == /\ k <= Len(sessions)
                /\ Len(sessions) <= Len(s.sessions)
                /\ sessions[k].rec = "recording"
         y   == IF was \/ x.rec = "recording" THEN Walk(x, s.calls) ELSE x
     IN  IF was /\ x.rec # "recording" /\ y.played # N
         THEN [y EXCEPT !.ok = FALSE] ELSE y]

\* App.tsx:78-84: the component is rendered in the PREVIEW state only, and
\* only with an audio context
Mounted == appState = "PREVIEW" /\ audioCtxState # "null"

(* The render loop of VideoPlayer, part_000:250-260.  draw.frames holds the
   frame callbacks that are requested and neither run nor cancelled, each
   with its handle and the cursor and resolution of the render that made
   it; draw.ref is animationFrameRef.current. *)

\* the handle requestAnimationFrame returns: one that names no callback
\* alive (handles are compared for equality only, and the ref is
\* overwritten with the new handle in the statement that requests it)
Handle(d) ==
  CHOOSE i \in 1..(Cardinality(d.frames) + 1) : \A f \in d.frames : f.id # i

\* part_000:252-257, in the render with cursor index and resolution res
renderLoop(d, index, res) ==
  [d EXCEPT !.frames = @ \cup {[id |-> Handle(d), scene |-> index,
                                resolution |-> res]},
            !.ref = Handle(d)]

\* cancelAnimationFrame(id): a handle that names no callback alive is ignored
cancelAnimationFrame(d, id) == [d EXCEPT !.frames = {f \in @ : f.id # id}]

\* an effect without its cleanup
renderEffect_noCleanup(d, index, res) == renderLoop(d, index, res)

\* part_000:251-259 when a dependency has changed: the cleanup of the
\* effect of the previous render, then the effect of the new one
renderEffect(d, index, res) ==
  renderLoop(cancelAnimationFrame(d, d.ref), index, res)

\* part_000:260: the effect runs again when the render that follows the
\* handler has another cursor, scene list or canvas size
Effects(s) ==
  IF /\ draw.op = "loop"
     /\ component = "VideoPlayer"
     /\ Mounted
     /\ <<s.idx, s.scenes, s.resolution>>
          # <<currentSceneIdx, scenes, resolution>>
  THEN renderEffect(draw, s.idx, s.resolution)
  ELSE draw

\* The state setters of a component that has been unmounted do nothing;
\* refs, the audio context and the recorder are plain objects and change.
Commit(s) ==
  /\ scenes' = s.scenes
  /\ isPlaying' = IF Mounted THEN s.isPlaying ELSE isPlaying
  /\ currentSceneIdx' = IF Mounted THEN s.idx ELSE currentSceneIdx
  /\ isExporting' = IF Mounted THEN s.isExporting ELSE isExporting
  /\ isExportingRef' = s.isExportingRef
  /\ audioSourceRef' = s.ref
  /\ exportDestRef' = s.dest
  /\ mediaRecorderRef' = s.rec
  /\ recordedChunksRef' = s.chunks
  /\ sessions' = IF hist THEN Track(s) ELSE s.sessions
  /\ pending' = s.pending
  /\ audioCtxState' = s.ctx
  /\ playbackSpeed' = IF Mounted THEN s.speed ELSE playbackSpeed
  /\ resolution' = IF Mounted THEN s.resolution ELSE resolution
  /\ fps' = IF Mounted THEN s.fps ELSE fps
  /\ showSettings' = IF Mounted THEN s.showSettings ELSE showSettings
  /\ draw' = Effects(s)

(* ---------------- platform helpers ---------------- *)

Add(p, r) == p (+) SetToBag({r})

Remove(p, r) == p (-) SetToBag({r})

\* the bag of the F(r), r in p
MapBag(p, F(_)) ==
  LET M[D \in SUBSET DOMAIN p] ==
        IF D = {} THEN EmptyBag
        ELSE LET r == CHOOSE x \in D : TRUE
             IN  M[D \ {r}] (+) [x \in {F(r)} |-> p[r]]
  IN  M[DOMAIN p]

\* p with its one record r that satisfies P replaced by F(r)
Update(p, P(_), F(_)) ==
  LET H == {r \in DOMAIN p : P(r)} IN
  IF H = {} THEN p
  ELSE LET r == CHOOSE x \in H : TRUE
       IN  Add(Remove(p, r), F(r))

HasRoom(p) == BagCardinality(p) < MaxPending

\* AudioBufferSourceNode.stop() on the node the ref names: a playing node
\* stops and its `ended` event is queued; a node that has already stopped
\* or ended is left alone.
Held(r) == r.held

HeldPlaying(r) == r.held /\ r.kind = "source" /\ r.st = "playing"

StopOne(r) == [r EXCEPT !.st = "stopped"]

SourceStop(p) == Update(p, HeldPlaying, StopOne)

\* the ref is assigned another value: no live node is the one it names
DropOne(r) == [r EXCEPT !.held = FALSE]

Unhold(p) == Update(p, Held, DropOne)

\* The closure of the current render, as seen by a handler invoked from the UI.
Closure == [speed |-> playbackSpeed, exp |-> isExporting, cur |-> TRUE]

\* The closure the callback of r runs in.
ClosureOf(r) == [speed |-> r.capSpeed, exp |-> r.capExp, cur |-> r.cur]

\* history only: every callback alive now belongs to a superseded chain
RetireOne(r) == [r EXCEPT !.cur = FALSE]

Retire(p) == IF hist THEN MapBag(p, RetireOne) ELSE p

NewSource(index, cl, tap) ==
  [kind |-> "source", scene |-> index, st |-> "playing", held |-> TRUE,
   tap |-> tap, rate |-> cl.speed, delay |-> 0, capSpeed |-> cl.speed,
   capExp |-> cl.exp, cur |-> cl.cur]

NewTimer(kind, index, cl, ms) ==
  [kind |-> kind, scene |-> index, st |-> "-", held |-> FALSE, tap |-> NULL,
   rate |-> 0, delay |-> ms, capSpeed |-> cl.speed, capExp |-> cl.exp,
   cur |-> cl.cur]

\* MediaRecorder.state of the recorder a ref names
RecorderState(s, k) == IF k = Old THEN "inactive" ELSE s.sessions[k].rec

\* An export session is over when its recorder neither records nor has an
\* event to deliver.  Sessions that are over are forgotten when the next
\* export request arrives, so that the model keeps only the sessions that
\* can still interact; what still names them is renamed to Old.
Over(x) == x.rec # "recording" /\ x.ev = "none"

AllOver(ss) == \A i \in 1..Len(ss) : Over(ss[i])

OldTap(r) == [r EXCEPT !.tap = IF @ = NULL THEN NULL ELSE Old]

Forget(s) ==
  IF s.sessions # <<>> /\ AllOver(s.sessions)
  THEN [s EXCEPT !.sessions = <<>>,
                 !.rec = IF @ = NULL THEN NULL ELSE Old,
                 !.dest = IF @ = NULL THEN NULL ELSE Old,
                 !.chunks = [i \in 1..Len(@) |-> Old],
                 !.pending = MapBag(@, OldTap)]
  ELSE s

\* The state in which the callback of r starts to run: r is no longer alive
\* (a ref that named it now names an ended node).
Released(r) == [S EXCEPT !.pending = Remove(@, r)]

\* the selection that never falls back to the baseline type
mimeType_preferred(supported) == "video/webm;codecs=vp9"

\* Player.tsx:226-228, part_000:341-343
mimeType(supported) ==
  IF "video/webm;codecs=vp9" \in supported
  THEN "video/webm;codecs=vp9"
  ELSE "video/webm"

\* new MediaRecorder(stream, {mimeType}) throws NotSupportedError for a type
\* the runtime does not support
NotSupported(type) == type \notin typeSupported

(* ======================= Player (Player.tsx) ======================= *)

\* stopAudio that drops the ref and leaves the node running
stopAudio_noStop(s) == [s EXCEPT !.pending = Unhold(@), !.ref = "null"]

\* Player.tsx:140-145
stopAudio(s) ==
  IF s.ref # "null"
  THEN [s EXCEPT !.pending = Unhold(SourceStop(@)), !.ref = "null"]
  ELSE s

\* setPlaybackSpeed(v) and the effect it triggers, Player.tsx:129-138, 343
SetRate(r, v) == [r EXCEPT !.rate = v]

\* a speed change that leaves the running source at its old rate
setPlaybackSpeed_noEffect(s, v) == [s EXCEPT !.speed = v]

setPlaybackSpeed(s, v) ==
  [s EXCEPT !.speed = v,
            !.pending = IF s.ref # "null"
                        THEN Update(@, Held, LAMBDA r : SetRate(r, v))
                        ELSE @]

\* a finishExport that also empties the scene list
finishExport_clearsScenes(s) ==
  IF s.rec # NULL /\ RecorderState(s, s.rec) # "inactive"
  THEN [s EXCEPT !.sessions[s.rec].rec = "inactive",
                 !.sessions[s.rec].ev = "data", !.scenes = <<>>]
  ELSE [s EXCEPT !.scenes = <<>>]

\* Player.tsx:267-271
finishExport(s) ==
  IF s.rec # NULL /\ RecorderState(s, s.rec) # "inactive"
  THEN [s EXCEPT !.sessions[s.rec].rec = "inactive",
                 !.sessions[s.rec].ev = "data"]
  ELSE s

\* a playScene that leaves the cursor past the last scene at the end
playScene_pastEnd(s, index, cl) ==
  LET s0 == [s EXCEPT !.calls = Append(@, index)] IN
  IF index >= N
  THEN LET s1 == [s0 EXCEPT !.isPlaying = FALSE, !.idx = index]
       IN  IF s1.isExportingRef THEN finishExport(s1) ELSE s1
  ELSE LET s1 == stopAudio([s0 EXCEPT !.idx = index])
       IN  IF scenes[index + 1].audioBuffer
           THEN [s1 EXCEPT
                   !.pending = Add(Unhold(@), NewSource(index, cl,
                       IF s1.isExportingRef /\ s1.dest # NULL
                       THEN s1.dest ELSE NULL)),
                   !.ref = "node"]
           ELSE [s1 EXCEPT
                   !.pending = Add(@, NewTimer("timer", index, cl,
                                       (FallbackMs * 100) \div cl.speed))]

\* Player.tsx:147-186.  cl is the closure the call runs in.
playScene(s, index, cl) ==
  LET s0 == [s EXCEPT !.calls = Append(@, index)] IN
  IF index >= N
  THEN LET s1 == [s0 EXCEPT !.isPlaying = FALSE, !.idx = 0]
       IN  IF s1.isExportingRef THEN finishExport(s1) ELSE s1
  ELSE LET s1 == stopAudio([s0 EXCEPT !.idx = index])
       IN  IF scenes[index + 1].audioBuffer
           THEN [s1 EXCEPT
                   !.pending = Add(Unhold(@), NewSource(index, cl,
                       IF s1.isExportingRef /\ s1.dest # NULL
                       THEN s1.dest ELSE NULL)),
                   !.ref = "node"]
           ELSE [s1 EXCEPT
                   !.pending = Add(@, NewTimer("timer", index, cl,
                                       (FallbackMs * 100) \div cl.speed))]

\* Player.tsx:188-198
togglePlay(s, cl) ==
  LET s1 == [s EXCEPT !.ctx = IF @ = "suspended" THEN "running" ELSE @] IN
  IF s1.isPlaying
  THEN stopAudio([s1 EXCEPT !.isPlaying = FALSE])
  ELSE playScene([s1 EXCEPT !.isPlaying = TRUE], s1.idx, cl)

\* The steps of handleExport that can throw, in program order.
ExportFailures == {"none", "createMediaStreamDestination", "captureStream",
                   "MediaRecorder", "start"}

\* an export handler that schedules the pass before it starts the recorder
handleExport_passFirst(s, f, cl) ==
  LET n  == Len(s.sessions) + 1
      s1 == [stopAudio(s) EXCEPT !.isPlaying = FALSE, !.idx = 0,
                                 !.isExporting = TRUE,
                                 !.isExportingRef = TRUE,
                                 !.showSettings = FALSE,
                                 !.sessions = Append(@,
                                    [NoSession EXCEPT
                                       !.resolution = s.resolution,
                                       !.fps = s.fps])]
      s2 == [s1 EXCEPT !.dest = n]
      sm == [s2 EXCEPT !.sessions[n].mimeType = mimeType(typeSupported)]
      s3 == [sm EXCEPT !.sessions[n].rec = "inactive", !.rec = n,
                       !.chunks = <<>>,
                       !.pending = Add(@, NewTimer("exportStart", 0, cl,
                                                   SettleMs))]
      s4 == [s3 EXCEPT !.sessions[n].rec = "recording"]
  IN  CASE f = "createMediaStreamDestination" ->
             [s1 EXCEPT !.sessions[n].thrown = f]
        [] f = "captureStream" -> [s2 EXCEPT !.sessions[n].thrown = f]
        [] NotSupported(sm.sessions[n].mimeType) ->
             [sm EXCEPT !.sessions[n].thrown = "NotSupportedError"]
        [] f = "MediaRecorder" -> [sm EXCEPT !.sessions[n].thrown = f]
        [] f = "start" -> [s3 EXCEPT !.sessions[n].thrown = f]
        [] OTHER -> s4

\* an export handler that does not empty the chunk list
handleExport_keepsChunks(s, f, cl) ==
  LET n  == Len(s.sessions) + 1
      s1 == [stopAudio(s) EXCEPT !.isPlaying = FALSE, !.idx = 0,
                                 !.isExporting = TRUE,
                                 !.isExportingRef = TRUE,
                                 !.showSettings = FALSE,
                                 !.sessions = Append(@,
                                    [NoSession EXCEPT
                                       !.resolution = s.resolution,
                                       !.fps = s.fps])]
      s2 == [s1 EXCEPT !.dest = n]
      sm == [s2 EXCEPT !.sessions[n].mimeType = mimeType(typeSupported)]
      s3 == [sm EXCEPT !.sessions[n].rec = "inactive", !.rec = n]
      s4 == [s3 EXCEPT !.sessions[n].rec = "recording",
                       !.pending = Add(@, NewTimer("exportStart", 0, cl,
                                                   SettleMs))]
  IN  CASE f = "createMediaStreamDestination" ->
             [s1 EXCEPT !.sessions[n].thrown = f]
        [] f = "captureStream" -> [s2 EXCEPT !.sessions[n].thrown = f]
        [] NotSupported(sm.sessions[n].mimeType) ->
             [sm EXCEPT !.sessions[n].thrown = "NotSupportedError"]
        [] f = "MediaRecorder" -> [sm EXCEPT !.sessions[n].thrown = f]
        [] f = "start" -> [s3 EXCEPT !.sessions[n].thrown = f]
        [] OTHER -> s4

\* Player.tsx:202-265.  f names the step that throws ("none": no step does);
\* nothing catches the exception, so the handler ends at that step.
handleExport(s, f, cl) ==
  LET n  == Len(s.sessions) + 1
      s1 == [stopAudio(s) EXCEPT !.isPlaying = FALSE, !.idx = 0,
                                 !.isExporting = TRUE,
                                 !.isExportingRef = TRUE,
                                 !.showSettings = FALSE,
                                 !.sessions = Append(@,
                                    [NoSession EXCEPT
                                       !.resolution = s.resolution,
                                       !.fps = s.fps])]
      s2 == [s1 EXCEPT !.dest = n]
      sm == [s2 EXCEPT !.sessions[n].mimeType = mimeType(typeSupported)]
      s3 == [sm EXCEPT !.sessions[n].rec = "inactive", !.rec = n,
                       !.chunks = <<>>]
      s4 == [s3 EXCEPT !.sessions[n].rec = "recording",
                       !.pending = Add(@, NewTimer("exportStart", 0, cl,
                                                   SettleMs))]
  IN  CASE f = "createMediaStreamDestination" ->
             [s1 EXCEPT !.sessions[n].thrown = f]
        [] f = "captureStream" -> [s2 EXCEPT !.sessions[n].thrown = f]
        [] NotSupported(sm.sessions[n].mimeType) ->
             [sm EXCEPT !.sessions[n].thrown = "NotSupportedError"]
        [] f = "MediaRecorder" -> [sm EXCEPT !.sessions[n].thrown = f]
        [] f = "start" -> [s3 EXCEPT !.sessions[n].thrown = f]
        [] OTHER -> s4

\* Player.tsx:261-264
exportStart(s, cl) == playScene([s EXCEPT !.isPlaying = TRUE], 0, cl)

\* Player.tsx:237-239
ondataavailable(s, k, size) ==
  [s EXCEPT !.chunks = IF size > 0 THEN Append(@, k) ELSE @,
            !.sessions[k].delivered = IF size > 0 THEN Append(@, k) ELSE @,
            !.sessions[k].ev = "stop"]

\* a.download of recorder.onstop, Player.tsx:246
download(res, rate) ==
  "story-video-" \o res \o "-" \o ToString(rate) \o "fps.webm"

\* a stop handler that saves the file and leaves the exporting flag set
onstop_keepsFlag(s, k) ==
  [s EXCEPT !.sessions[k].files = Append(@, s.chunks),
            !.sessions[k].names =
               Append(@, download(s.sessions[k].resolution,
                                  s.sessions[k].fps)),
            !.dest = NULL,
            !.sessions[k].ev = "none"]

\* Player.tsx:241-255
onstop(s, k) ==
  [s EXCEPT !.sessions[k].files = Append(@, s.chunks),
            !.sessions[k].names =
               Append(@, download(s.sessions[k].resolution,
                                  s.sessions[k].fps)),
            !.isExporting = FALSE, !.isExportingRef = FALSE,
            !.dest = NULL,
            !.sessions[k].ev = "none"]

(* =================== VideoPlayer (part_000) =================== *)

\* part_000:378-382
stopExport(s) ==
  IF s.rec # NULL /\ RecorderState(s, s.rec) # "inactive"
  THEN [s EXCEPT !.sessions[s.rec].rec = "inactive",
                 !.sessions[s.rec].ev = "data"]
  ELSE s

\* part_000:262-310 (the body of playScene up to the callbacks)
VP_playScene(s, index, cl) ==
  LET s0 == [s EXCEPT !.calls = Append(@, index)] IN
  IF s0.ctx = "null" \/ index >= N
  THEN [s0 EXCEPT !.isPlaying = FALSE, !.idx = 0]
  ELSE LET s1 == [s0 EXCEPT !.idx = index,
                            !.pending = IF s0.ref # "null"
                                        THEN SourceStop(@) ELSE @]
       IN  IF scenes[index + 1].audioBuffer
           THEN [s1 EXCEPT
                   !.pending = Add(Unhold(@), NewSource(index, cl, s1.dest)),
                   !.ref = "node"]
           ELSE [s1 EXCEPT !.pending =
                   Add(@, NewTimer("timer", index, cl, VPFallbackMs))]

\* part_000:287-295
VP_onended(s, index, cl) ==
  IF index < N - 1
  THEN VP_playScene(s, index + 1, cl)
  ELSE LET s1 == [s EXCEPT !.isPlaying = FALSE, !.idx = 0,
                           !.calls = Append(@, N)]
       IN  IF cl.exp THEN stopExport(s1) ELSE s1

\* part_000:302-308
VP_timeout(s, index, cl) ==
  IF index < N - 1
  THEN VP_playScene(s, index + 1, cl)
  ELSE LET s1 == [s EXCEPT !.isPlaying = FALSE, !.calls = Append(@, N)]
       IN  IF cl.exp THEN stopExport(s1) ELSE s1

\* part_000:312-324
handlePlayPause(s, cl) ==
  LET s1 == [s EXCEPT !.ctx = IF @ = "suspended" THEN "running" ELSE @] IN
  IF s1.isPlaying
  THEN [s1 EXCEPT !.isPlaying = FALSE,
                  !.pending = IF s1.ref # "null" THEN SourceStop(@)
                                                 ELSE @]
  ELSE VP_playScene([s1 EXCEPT !.isPlaying = TRUE], s1.idx, cl)

\* part_000:328-376
handleExportVideo(s, f, cl) ==
  LET n  == Len(s.sessions) + 1
      s1 == [s EXCEPT !.isExporting = TRUE,
                      !.sessions = Append(@,
                         [NoSession EXCEPT !.resolution = s.resolution,
                                           !.fps = s.fps])]
      s2 == [s1 EXCEPT !.dest = n,
                       !.sessions[n].mimeType = mimeType(typeSupported)]
      s3 == [s2 EXCEPT !.sessions[n].rec = "inactive", !.rec = n]
      s4 == [s3 EXCEPT !.sessions[n].rec = "recording", !.isPlaying = TRUE]
  IN  IF s.ctx = "null" THEN s
      ELSE CASE f \in {"captureStream", "createMediaStreamDestination"} ->
                  [s1 EXCEPT !.sessions[n].thrown = f]
             [] NotSupported(s2.sessions[n].mimeType) ->
                  [s2 EXCEPT !.sessions[n].thrown = "NotSupportedError"]
             [] f = "MediaRecorder" -> [s2 EXCEPT !.sessions[n].thrown = f]
             [] f = "start" -> [s3 EXCEPT !.sessions[n].thrown = f]
             [] OTHER -> VP_playScene(s4, 0, cl)

\* part_000:350-352
VP_ondataavailable(s, k, size) ==
  [s EXCEPT !.chunks = IF size > 0 THEN Append(@, k) ELSE @,
            !.sessions[k].delivered = IF size > 0 THEN Append(@, k) ELSE @,
            !.sessions[k].ev = "stop"]

\* a.download of recorder.onstop, part_000:359
VP_download(res, rate) == "doc-to-video-" \o res \o ".webm"

\* part_000:354-368
VP_onstop(s, k) ==
  [s EXCEPT !.sessions[k].files = Append(@, s.chunks),
            !.sessions[k].names =
               Append(@, VP_download(s.sessions[k].resolution,
                                     s.sessions[k].fps)),
            !.chunks = <<>>, !.dest = NULL,
            !.isExporting = FALSE, !.isPlaying = FALSE, !.idx = 0,
            !.sessions[k].ev = "none"]


(* ================= frame compositor (drawing) ================= *)

\* Exact fractions <<numerator, denominator>>, denominator > 0, for the
\* divisions of the cover fit (the code computes them in floating point).
Frac(n, d) == <<n, d>>

Less(a, b) == a[1] * b[2] < b[1] * a[2]

Max(a, b) == IF Less(a, b) THEN b ELSE a

Min(a, b) == IF Less(a, b) THEN a ELSE b

Times(k, a) == <<k * a[1], a[2]>>

Minus(k, a) == <<k * a[2] - a[1], a[2]>>

Half(a) == <<a[1], 2 * a[2]>>

\* contain fit: the smaller of the two ratios
drawImageCover_min(sourceW, sourceH, w, h) ==
  LET ratio == Min(Frac(w, sourceW), Frac(h, sourceH))
      newW  == Times(sourceW, ratio)
      newH  == Times(sourceH, ratio)
  IN  [x |-> Half(Minus(w, newW)), y |-> Half(Minus(h, newH)),
       w |-> newW, h |-> newH]

\* part_000:186-200 (Player.tsx:64-70 computes the same rectangle):
\* the destination rectangle handed to ctx.drawImage
drawImageCover(sourceW, sourceH, w, h) ==
  LET ratio == Max(Frac(w, sourceW), Frac(h, sourceH))
      newW  == Times(sourceW, ratio)
      newH  == Times(sourceH, ratio)
  IN  [x |-> Half(Minus(w, newW)), y |-> Half(Minus(h, newH)),
       w |-> newW, h |-> newH]

\* ctx.measureText(line).width for a line built as word + ' ' + word + ' '
\* ...: every word is followed by one space; widths are additive
RECURSIVE measureText(_, _)
measureText(line, space) ==
  IF line = <<>> THEN 0
  ELSE Head(line) + space + measureText(Tail(line), space)

\* the loop of part_000:226-237 (Player.tsx:95-105) from word n on
\* (n counts from 1; the code's n > 0 is n > 1 here)
RECURSIVE wrapFrom(_, _, _, _, _, _)
wrapFrom(words, n, line, lines, maxWidth, space) ==
  IF n > Len(words) THEN Append(lines, line)
  ELSE LET testLine == Append(line, words[n]) IN
       IF measureText(testLine, space) > maxWidth /\ n > 1
       THEN wrapFrom(words, n + 1, <<words[n]>>, Append(lines, line),
                     maxWidth, space)
       ELSE wrapFrom(words, n + 1, testLine, lines, maxWidth, space)

\* a wrap that drops the line it closes
wordWrap_drop(words, maxWidth, space) ==
  <<wrapFrom(words, 1, <<>>, <<>>, maxWidth, space)[1]>>

\* a wrap that never pushes the line it is building when the words run out
wordWrap_noLastLine(words, maxWidth, space) ==
  LET lines == wrapFrom(words, 1, <<>>, <<>>, maxWidth, space)
  IN  SubSeq(lines, 1, Len(lines) - 1)

\* part_000:221-238, Player.tsx:89-106: the lines of a subtitle, each the
\* sequence of its words (a word is its measured width)
wordWrap(words, maxWidth, space) ==
  wrapFrom(words, 1, <<>>, <<>>, maxWidth, space)

\* One thing drawn on the canvas: the black fill, the scene's image or
\* video frame (with its destination rectangle), the gradient, or the
\* subtitle (with its lines).
Layer(kind, rect, lines) == [layer |-> kind, rect |-> rect, lines |-> lines]

\* part_000:202-248 (Player.tsx:72-113 draws the same two layers)
drawSubtitles(words, maxWidth, space) ==
  <<Layer("gradient", <<>>, <<>>),
    Layer("text", <<>>, wordWrap(words, maxWidth, space))>>

\* a readiness test that looks at the width only
VideoReady_widthOnly(videoWidth, readyState) == videoWidth # 0

\* part_000:188: the negation of the early return of drawImageCover
VideoReady(videoWidth, readyState) == ~(videoWidth = 0 \/ readyState < 2)

\* part_000:157-184.  d is the call: the scene, the state of the hidden
\* video element and of the image, the canvas size and the subtitle.
drawFrame(d) ==
  LET asset ==
        IF d.scene.video
        THEN IF VideoReady(d.videoWidth, d.readyState)
             THEN <<Layer("asset",
                          drawImageCover(d.videoWidth, d.sourceH, d.w, d.h),
                          <<>>)>>
             ELSE <<>>
        ELSE IF d.scene.image /\ d.complete
             THEN <<Layer("asset",
                          drawImageCover(d.width, d.sourceH, d.w, d.h),
                          <<>>)>>
             ELSE <<>>
  IN  <<Layer("fill", <<>>, <<>>)>> \o asset
        \o drawSubtitles(d.words, d.maxWidth, d.space)

\* Player.tsx:64-114
renderImage(d) ==
  <<Layer("asset", drawImageCover(d.width, d.sourceH, d.w, d.h), <<>>)>>
    \o drawSubtitles(d.words, d.maxWidth, d.space)

\* Player.tsx:43-122, up to the load of an image that is not complete
drawScene(d) ==
  <<Layer("fill", <<>>, <<>>)>>
    \o (IF d.scene.imageData /\ d.complete THEN renderImage(d) ELSE <<>>)

\* the visual fields of a scene, types.ts:15-17
Visuals == [imageData : BOOLEAN, image : BOOLEAN, video : BOOLEAN]

\* subtitles of one line and of two
FrameTexts == {<<1>>, <<2, 2>>}

\* getCanvasDimensions, part_000:119-125; getDimensions, Player.tsx:39
Targets == {[w |-> 1280, h |-> 720], [w |-> 1920, h |-> 1080]}

Widths == UNION {[1..n -> 0..MaxWordW] : n \in 1..MaxWords}

InitDraw ==
  \/ \E sw \in 1..MaxDim, sh \in 1..MaxDim, t \in Targets :
       draw = [op |-> "cover", sw |-> sw, sh |-> sh, w |-> t.w, h |-> t.h,
               done |-> FALSE]
  \/ \E ws \in Widths, m \in 1..MaxLineW, sp \in 1..MaxSpaceW :
       draw = [op |-> "wrap", words |-> ws, maxWidth |-> m, space |-> sp,
               done |-> FALSE]
  \/ \E v \in Visuals, vw \in 0..MaxSource, iw \in 1..MaxSource,
        sh \in 1..MaxSource, rs \in 0..4, c \in BOOLEAN, t \in Targets,
        ws \in FrameTexts :
       draw = [op |-> "frame", scene |-> v, videoWidth |-> vw, width |-> iw,
               sourceH |-> sh, readyState |-> rs, complete |-> c,
               w |-> t.w, h |-> t.h, words |-> ws,
               maxWidth |-> MaxLineW - 1, space |-> 1,
               done |-> FALSE, onload |-> FALSE, out |-> <<>>]

\* drawing reads the scene and writes the canvas only
Sequencer == <<appState, component, scenes, audioCtxState, isPlaying, currentSceneIdx,
               isExporting, isExportingRef, audioSourceRef, exportDestRef,
               mediaRecorderRef, recordedChunksRef, playbackSpeed, resolution,
               fps, showSettings, typeSupported, sessions,
               pending, lastUser, lastEv, pass, hist>>

DrawImageCover ==
  /\ draw.op = "cover" /\ ~draw.done
  /\ draw' = [draw EXCEPT !.done = TRUE] @@
             [out |-> drawImageCover(draw.sw, draw.sh, draw.w, draw.h)]
  /\ UNCHANGED Sequencer

DrawSubtitles ==
  /\ draw.op = "wrap" /\ ~draw.done
  /\ draw' = [draw EXCEPT !.done = TRUE] @@
             [out |-> wordWrap(draw.words, draw.maxWidth, draw.space)]
  /\ UNCHANGED Sequencer

\* one tick of the render loop, part_000:250-260
DrawFrame ==
  /\ component = "VideoPlayer"
  /\ draw.op = "frame" /\ ~draw.done
  /\ draw' = [draw EXCEPT !.done = TRUE, !.out = drawFrame(draw)]
  /\ UNCHANGED Sequencer

\* the redraw effect, Player.tsx:124-127; an image that is not complete is
\* drawn by its load handler (116-120)
DrawScene ==
  /\ component = "Player"
  /\ draw.op = "frame" /\ ~draw.done
  /\ draw' = [draw EXCEPT !.done = TRUE, !.out = drawScene(draw),
                          !.onload = draw.scene.imageData /\ ~draw.complete]
  /\ UNCHANGED Sequencer

\* img.onload = renderImage, Player.tsx:119
ImageOnLoad ==
  /\ component = "Player"
  /\ draw.op = "frame" /\ draw.onload
  /\ draw' = [draw EXCEPT !.onload = FALSE, !.complete = TRUE,
                          !.out = @ \o renderImage(draw)]
  /\ UNCHANGED Sequencer

\* a frame callback of the render loop runs, part_000:252-257
RenderFrame(f) ==
  /\ component = "VideoPlayer"
  /\ draw.op = "loop"
  /\ f \in draw.frames
  /\ draw' = renderLoop([draw EXCEPT !.frames = @ \ {f}], f.scene,
                        f.resolution)
  /\ UNCHANGED Sequencer

(* ======================= history variables ======================= *)

\* Nothing of an earlier run is alive: no source, no timer, no recorder.
Quiescent ==
  /\ pending = EmptyBag
  /\ ~isExporting
  /\ AllOver(sessions)

Started(calls) == SelectSeq(calls, LAMBDA i : i < N)

ReachedEnd(calls) == \E i \in 1..Len(calls) : calls[i] >= N

\* The state a handler invoked from the UI starts in (history: the callbacks
\* alive now are marked as belonging to a superseded chain, and the export
\* sessions that are over are forgotten).
U == Forget([S EXCEPT !.pending = Retire(@)])

\* the audio sources of p, each with its state (started / stopped)
SourceBag(p) == [r \in {x \in DOMAIN p : x.kind = "source"} |-> p[r]]

UserHist(op, arg, s, fresh) ==
  IF ~hist THEN UNCHANGED <<lastUser, lastEv, pass>>
  ELSE
  /\ lastUser' = [op |-> op, arg |-> arg]
  /\ lastEv' = [op |-> op, scene |-> arg, natural |-> FALSE, cur |-> TRUE,
                calls |-> s.calls, changed |-> TRUE]
  /\ pass' = IF fresh
             THEN [clean |-> TRUE, trace |-> Started(s.calls),
                   done |-> ReachedEnd(s.calls)]
             ELSE [clean |-> FALSE, trace |-> <<>>, done |-> FALSE]

CallbackHist(op, scene, natural, cur, s) ==
  IF ~hist THEN UNCHANGED <<lastUser, lastEv, pass>>
  ELSE
  /\ lastEv' = [op |-> op, scene |-> scene, natural |-> natural, cur |-> cur,
                calls |-> s.calls,
                changed |-> \/ s.idx # currentSceneIdx
                            \/ SourceBag(s.pending) # SourceBag(pending)]
  /\ pass' = IF pass.clean
             THEN [pass EXCEPT !.trace = @ \o Started(s.calls),
                               !.done = @ \/ ReachedEnd(s.calls)]
             ELSE pass
  /\ UNCHANGED lastUser

(* ============================ actions ============================ *)

Fixed == <<appState, component, typeSupported, hist>>

\* ---- Player ----

\* play / pause button and overlay, Player.tsx:379, 399-405
TogglePlay ==
  /\ component = "Player"
  /\ Mounted
  /\ ~isExporting
  /\ isPlaying \/ HasRoom(pending)
  /\ LET s == togglePlay(U, Closure) IN
       /\ Commit(s)
       /\ UserHist(IF isPlaying THEN "pause" ELSE "play", currentSceneIdx, s,
                   ~isPlaying /\ Quiescent /\ currentSceneIdx = 0)
  /\ UNCHANGED Fixed

\* scene strip, Player.tsx:437-441
Seek(j) ==
  /\ component = "Player"
  /\ Mounted
  /\ ~isExporting
  /\ HasRoom(pending)
  /\ LET s == playScene(U, j, Closure) IN
       /\ Commit(s)
       /\ UserHist("seek", j, s, Quiescent /\ j = 0)
  /\ UNCHANGED Fixed

\* restart button, Player.tsx:418
Restart ==
  /\ component = "Player"
  /\ Mounted
  /\ ~isExporting
  /\ HasRoom(pending)
  /\ LET s == playScene(U, 0, Closure) IN
       /\ Commit(s)
       /\ UserHist("seek", 0, s, Quiescent)
  /\ UNCHANGED Fixed

\* a download button that is never disabled
ExportAlwaysEnabled == TRUE

\* speed buttons of the settings menu, Player.tsx:338-350; the menu cannot
\* be opened during an export (298) and handleExport closes it (212)
SetPlaybackSpeed(v) ==
  /\ component = "Player"
  /\ Mounted
  /\ ~isExporting
  /\ v # playbackSpeed
  /\ Commit(setPlaybackSpeed(S, v))
  /\ UNCHANGED <<lastUser, lastEv, pass>>
  /\ UNCHANGED Fixed

\* settings button, Player.tsx:296-298 (disabled={isExporting})
ToggleSettings ==
  /\ component = "Player"
  /\ Mounted
  /\ ~isExporting
  /\ Commit([S EXCEPT !.showSettings = ~showSettings])
  /\ UNCHANGED <<lastUser, lastEv, pass>>
  /\ UNCHANGED Fixed

\* resolution buttons of the settings menu, Player.tsx:306, 312-315
SetResolution(r) ==
  /\ component = "Player"
  /\ Mounted
  /\ showSettings
  /\ r # resolution
  /\ Commit([S EXCEPT !.resolution = r])
  /\ UNCHANGED <<lastUser, lastEv, pass>>
  /\ UNCHANGED Fixed

\* frame rate buttons of the settings menu, Player.tsx:306, 326-329
SetFps(f) ==
  /\ component = "Player"
  /\ Mounted
  /\ showSettings
  /\ f # fps
  /\ Commit([S EXCEPT !.fps = f])
  /\ UNCHANGED <<lastUser, lastEv, pass>>
  /\ UNCHANGED Fixed

\* download button, Player.tsx:356-363 (disabled={isExporting})
ExportEnabled == ~isExporting

HandleExport(f) ==
  /\ component = "Player"
  /\ Mounted
  /\ ExportEnabled
  /\ Len(U.sessions) < MaxExports
  /\ HasRoom(pending)
  /\ LET s == handleExport(U, f, Closure) IN
       /\ Commit(s)
       /\ UserHist("export", 0, s, FALSE)
  /\ UNCHANGED Fixed

\* Start Over button, Player.tsx:286-293 (disabled={isExporting}); onReset
\* is App.tsx:82, and the component has no effect cleanup: unmounting it
\* runs no code of the component.
Reset ==
  /\ component = "Player"
  /\ Mounted
  /\ ~isExporting
  /\ appState' = "INPUT"
  /\ UNCHANGED <<component, scenes, audioCtxState, isPlaying, currentSceneIdx,
                 isExporting, isExportingRef, audioSourceRef, exportDestRef,
                 mediaRecorderRef, recordedChunksRef, playbackSpeed,
                 resolution, fps, showSettings, typeSupported, sessions,
                 pending, lastUser, lastEv, pass, hist, draw>>

\* source.onended, Player.tsx:176-179: the source of slot k played to its end
\* (st = "playing") or was stopped (st = "stopped")
SourceOnEnded(r) ==
  /\ component = "Player"
  /\ r.kind = "source"
  /\ audioCtxState = "running"
  /\ LET s == playScene(Released(r), r.scene + 1, ClosureOf(r)) IN
       /\ Commit(s)
       /\ CallbackHist("ended", r.scene, r.st = "playing",
                       r.cur, s)
  /\ UNCHANGED Fixed

\* the setTimeout callback of Player.tsx:184
FallbackTimeout(r) ==
  /\ component = "Player"
  /\ r.kind = "timer"
  /\ LET s == playScene(Released(r), r.scene + 1, ClosureOf(r)) IN
       /\ Commit(s)
       /\ CallbackHist("timeout", r.scene, TRUE, r.cur, s)
  /\ UNCHANGED Fixed

\* the setTimeout callback of Player.tsx:261-264
ExportStartTimeout(r) ==
  /\ component = "Player"
  /\ r.kind = "exportStart"
  /\ LET s == exportStart(Released(r), ClosureOf(r)) IN
       /\ Commit(s)
       /\ CallbackHist("exportStart", 0, TRUE, r.cur, s)
  /\ UNCHANGED Fixed

RecorderDataAvailable(k) ==
  /\ component = "Player"
  /\ sessions[k].ev = "data"
  /\ \E size \in {0, 1} :
       LET s == ondataavailable(S, k, size) IN
         /\ Commit(s)
         /\ CallbackHist("dataavailable", k, TRUE, TRUE, s)
  /\ UNCHANGED Fixed

RecorderOnStop(k) ==
  /\ component = "Player"
  /\ sessions[k].ev = "stop"
  /\ LET s == onstop(S, k) IN
       /\ Commit(s)
       /\ CallbackHist("onstop", k, TRUE, TRUE, s)
  /\ UNCHANGED Fixed

\* ---- VideoPlayer ----

\* part_000:480-489 (the overlay is rendered only when not exporting)
VP_HandlePlayPause ==
  /\ component = "VideoPlayer"
  /\ ~isExporting
  /\ isPlaying \/ HasRoom(pending)
  /\ LET s == handlePlayPause(U, Closure) IN
       /\ Commit(s)
       /\ UserHist(IF isPlaying THEN "pause" ELSE "play", currentSceneIdx, s,
                   ~isPlaying /\ Quiescent /\ currentSceneIdx = 0)
  /\ UNCHANGED Fixed

\* part_000:517-520 (the strip stays enabled while exporting)
VP_Seek(j) ==
  /\ component = "VideoPlayer"
  /\ HasRoom(pending)
  /\ LET s == VP_playScene(U, j, Closure) IN
       /\ Commit(s)
       /\ UserHist("seek", j, s, Quiescent /\ j = 0)
  /\ UNCHANGED Fixed

\* part_000:490-495
VP_Restart ==
  /\ component = "VideoPlayer"
  /\ ~isExporting
  /\ HasRoom(pending)
  /\ LET s == VP_playScene(U, 0, Closure) IN
       /\ Commit(s)
       /\ UserHist("seek", 0, s, Quiescent)
  /\ UNCHANGED Fixed

\* settings button, part_000:395-397 (disabled={isExporting})
VP_ToggleSettings ==
  /\ component = "VideoPlayer"
  /\ Mounted
  /\ ~isExporting
  /\ Commit([S EXCEPT !.showSettings = ~showSettings])
  /\ UNCHANGED <<lastUser, lastEv, pass>>
  /\ UNCHANGED Fixed

\* resolution buttons of the settings menu, part_000:403, 408-411
VP_SetResolution(res) ==
  /\ component = "VideoPlayer"
  /\ Mounted
  /\ showSettings
  /\ res # resolution
  /\ Commit([S EXCEPT !.resolution = res])
  /\ UNCHANGED <<lastUser, lastEv, pass>>
  /\ UNCHANGED Fixed

\* frame rate buttons of the settings menu, part_000:403, 423-426
VP_SetFps(f) ==
  /\ component = "VideoPlayer"
  /\ Mounted
  /\ showSettings
  /\ f # fps
  /\ Commit([S EXCEPT !.fps = f])
  /\ UNCHANGED <<lastUser, lastEv, pass>>
  /\ UNCHANGED Fixed

\* part_000:438-440 (disabled={isExporting})
VP_ExportEnabled == ~isExporting

VP_HandleExportVideo(f) ==
  /\ component = "VideoPlayer"
  /\ VP_ExportEnabled
  /\ Len(U.sessions) < MaxExports
  /\ HasRoom(pending)
  /\ LET s == handleExportVideo(U, f, Closure) IN
       /\ Commit(s)
       /\ UserHist("export", 0, s, FALSE)
  /\ UNCHANGED Fixed

\* source.onended, part_000:287-295
VP_SourceOnEnded(r) ==
  /\ component = "VideoPlayer"
  /\ r.kind = "source"
  /\ audioCtxState = "running"
  /\ LET s == VP_onended(Released(r), r.scene, ClosureOf(r)) IN
       /\ Commit(s)
       /\ CallbackHist("ended", r.scene, r.st = "playing",
                       r.cur, s)
  /\ UNCHANGED Fixed

\* the setTimeout callback of part_000:302-308
VP_FallbackTimeout(r) ==
  /\ component = "VideoPlayer"
  /\ r.kind = "timer"
  /\ LET s == VP_timeout(Released(r), r.scene, ClosureOf(r)) IN
       /\ Commit(s)
       /\ CallbackHist("timeout", r.scene, TRUE, r.cur, s)
  /\ UNCHANGED Fixed

VP_RecorderDataAvailable(k) ==
  /\ component = "VideoPlayer"
  /\ sessions[k].ev = "data"
  /\ \E size \in {0, 1} :
       LET s == VP_ondataavailable(S, k, size) IN
         /\ Commit(s)
         /\ CallbackHist("dataavailable", k, TRUE, TRUE, s)
  /\ UNCHANGED Fixed

VP_RecorderOnStop(k) ==
  /\ component = "VideoPlayer"
  /\ sessions[k].ev = "stop"
  /\ LET s == VP_onstop(S, k) IN
       /\ Commit(s)
       /\ CallbackHist("onstop", k, TRUE, TRUE, s)
  /\ UNCHANGED Fixed

(* ========================= App (App.tsx) ========================= *)

\* a generate request that does not look at the audio context
handleGenerate_noCheck(state, ctx) == "GENERATING"

\* App.tsx:27-33: the state after the synchronous part of handleGenerate
handleGenerate(state, ctx) == IF ctx = "null" THEN state ELSE "GENERATING"

AppOnly == <<component, scenes, isPlaying, currentSceneIdx, isExporting,
             isExportingRef, audioSourceRef, exportDestRef, mediaRecorderRef,
             recordedChunksRef, playbackSpeed, resolution, fps, showSettings,
             typeSupported, sessions, pending, lastUser, lastEv, pass, hist,
             draw>>

\* the first click on the window, App.tsx:15-25
InitAudio ==
  /\ audioCtxState = "null"
  /\ audioCtxState' \in {"suspended", "running"}
  /\ UNCHANGED appState
  /\ UNCHANGED AppOnly

\* InputStep.onSubmit, App.tsx:27-33, 57-59
HandleGenerate ==
  /\ appState = "INPUT"
  /\ appState' = handleGenerate(appState, audioCtxState)
  /\ UNCHANGED audioCtxState
  /\ UNCHANGED AppOnly

\* generateStoryContent resolves, App.tsx:35-37: the scenes are stored and
\* the Player is mounted.  The content arrives after every callback of an
\* earlier Player has run, so that one Player is alive at a time.
GenerateResolved(generatedScenes) ==
  /\ appState = "GENERATING"
  /\ pending = EmptyBag
  /\ AllOver(sessions)
  /\ appState' = "PREVIEW"
  /\ scenes' = generatedScenes
  /\ isPlaying' = FALSE
  /\ currentSceneIdx' = 0
  /\ isExporting' = FALSE
  /\ isExportingRef' = FALSE
  /\ audioSourceRef' = "null"
  /\ exportDestRef' = NULL
  /\ mediaRecorderRef' = NULL
  /\ recordedChunksRef' = <<>>
  /\ playbackSpeed' = DefaultSpeed
  /\ resolution' = DefaultResolution
  /\ fps' = DefaultFps
  /\ showSettings' = FALSE
  /\ sessions' = <<>>
  /\ UNCHANGED <<component, audioCtxState, typeSupported, pending, lastUser,
                 lastEv, pass, hist, draw>>

\* generateStoryContent rejects, App.tsx:38-42
GenerateRejected ==
  /\ appState = "GENERATING"
  /\ appState' = "INPUT"
  /\ UNCHANGED audioCtxState
  /\ UNCHANGED AppOnly

(* ============ content generation (ScriptStep.tsx:134-265) ============ *)

\* what a request to the model can come to: the request throws, the
\* response has no inline data, or it carries a payload
Failures == {"throws", "empty"}

ImagePayloads == {"iVBORw0KGgo"}

AudioPayloads == {"pcm"}

\* a generateImage that lets the failure of its request escape
generateImage_uncaught(outcome) ==
  IF outcome = "throws" THEN "throws"
  ELSE IF outcome = "empty" THEN "undefined"
  ELSE "data:image/png;base64," \o outcome

\* ScriptStep.tsx:218-237
generateImage(outcome) ==
  IF outcome \in Failures THEN "undefined"
  ELSE "data:image/png;base64," \o outcome

\* ScriptStep.tsx:239-265
generateAudio(outcome) ==
  IF outcome \in Failures THEN "undefined" ELSE "AudioBuffer"

\* ScriptStep.tsx:182-188
scriptScenes(script) ==
  [i \in 1..Len(script) |->
     [id |-> i - 1, text |-> script[i].narration,
      narration |-> script[i].narration,
      imagePrompt |-> script[i].imagePrompt,
      visual_prompt |-> script[i].imagePrompt]]

\* one turn of the loop of ScriptStep.tsx:195-213 on the call d: the two
\* requests of scene d.i come to img and aud; a rejection of Promise.all
\* rejects the call
generateScene(d, img, aud) ==
  LET scene    == d.scenes[d.i + 1]
      imgBase64 == generateImage(img)
      audioBuf  == generateAudio(aud)
  IN  IF imgBase64 = "throws" \/ audioBuf = "throws"
      THEN [d EXCEPT !.done = TRUE, !.rejected = TRUE]
      ELSE [d EXCEPT
              !.processedScenes =
                 Append(@, scene @@ [imageData |-> imgBase64,
                                     image |-> imgBase64,
                                     audioBuffer |-> audioBuf]),
              !.outcomes = Append(@, <<img, aud>>),
              !.i = @ + 1]

\* the scripts the model returns, ScriptStep.tsx:179
Scripts ==
  UNION {[1..n -> [imagePrompt : {"a fox", "a hen"},
                   narration : {"Once", "Then"}]] : n \in 0..MaxScript}

\* generateStoryContent is called and the script has arrived,
\* ScriptStep.tsx:140-193
InitGenerate ==
  \E script \in Scripts :
    draw = [op |-> "generate", script |-> script,
            scenes |-> scriptScenes(script), processedScenes |-> <<>>,
            outcomes |-> <<>>, i |-> 0, done |-> FALSE, rejected |-> FALSE,
            returned |-> <<>>]

\* the two requests of a scene settle, ScriptStep.tsx:202-212
GenerateScene(img, aud) ==
  /\ draw.op = "generate" /\ ~draw.done
  /\ draw.i < Len(draw.scenes)
  /\ draw' = generateScene(draw, img, aud)
  /\ UNCHANGED Sequencer

\* return processedScenes, ScriptStep.tsx:215
GenerateReturn ==
  /\ draw.op = "generate" /\ ~draw.done
  /\ draw.i >= Len(draw.scenes)
  /\ draw' = [draw EXCEPT !.done = TRUE, !.returned = draw.processedScenes]
  /\ UNCHANGED Sequencer

(* ============== script step (ScriptStep.tsx:14-131) ============== *)

\* an edit that writes the value into every scene
handleSceneChange_all(list, id, field, value) ==
  [i \in 1..Len(list) |-> [list[i] EXCEPT ![field] = value]]

\* ScriptStep.tsx:22-25: the list handed to onUpdateScenes
handleSceneChange(list, id, field, value) ==
  [i \in 1..Len(list) |->
     IF list[i].id = id THEN [list[i] EXCEPT ![field] = value] ELSE list[i]]

\* the fields the text areas edit, ScriptStep.tsx:106, 120
EditedFields == {"visual_prompt", "narration"}

\* what is typed into a text area
EditValues == {"a hen", "Then", ""}

\* the script step shows generated scenes and a text area changes
InitEdit ==
  \E script \in Scripts, id \in 0..MaxScript, field \in EditedFields,
     value \in EditValues :
    draw = [op |-> "edit", scenes |-> scriptScenes(script), id |-> id,
            field |-> field, value |-> value, done |-> FALSE,
            updated |-> <<>>]

\* onChange of a text area, ScriptStep.tsx:106, 120
HandleSceneChange ==
  /\ draw.op = "edit" /\ ~draw.done
  /\ draw' = [draw EXCEPT
                !.done = TRUE,
                !.updated = handleSceneChange(draw.scenes, draw.id,
                                              draw.field, draw.value)]
  /\ UNCHANGED Sequencer

(* ============== PCM decoding (audioUtils.ts:17-47) ============== *)

\* the scale of a 16-bit sample, audioUtils.ts:42
FullScale == 32768

\* the element of an Int16Array over the bytes lo, hi (little-endian, the
\* byte order of the platforms the program runs on), audioUtils.ts:31
Int16(lo, hi) ==
  LET v == lo + 256 * hi IN IF v >= FullScale THEN v - 2 * FullScale ELSE v

\* a decoder that drops the last byte of an odd input
decodeAudioData_truncates(data, numChannels) ==
  LET dataInt16 == [j \in 1..(Len(data) \div 2) |->
                      Int16(data[2 * j - 1], data[2 * j])]
      length    == Len(dataInt16) \div numChannels
  IN  IF length = 0
      THEN [thrown |-> "NotSupportedError", samples |-> dataInt16,
            channels |-> <<>>]
      ELSE [thrown |-> "none", samples |-> dataInt16,
            channels |->
              [c \in 1..numChannels |->
                 [i \in 1..length |->
                    Frac(dataInt16[(i - 1) * numChannels + c], FullScale)]]]

\* audioUtils.ts:17-47.  samples is dataInt16; channels[c][i] is
\* getChannelData(c - 1)[i - 1] as an exact fraction.  createBuffer takes
\* the frame count as an unsigned long (the quotient is truncated) and
\* throws NotSupportedError when it is 0.
decodeAudioData(data, numChannels) ==
  LET padded    == IF Len(data) % 2 # 0 THEN Append(data, 0) ELSE data
      dataInt16 == [j \in 1..(Len(padded) \div 2) |->
                      Int16(padded[2 * j - 1], padded[2 * j])]
      length    == Len(dataInt16) \div numChannels
  IN  IF length = 0
      THEN [thrown |-> "NotSupportedError", samples |-> dataInt16,
            channels |-> <<>>]
      ELSE [thrown |-> "none", samples |-> dataInt16,
            channels |->
              [c \in 1..numChannels |->
                 [i \in 1..length |->
                    Frac(dataInt16[(i - 1) * numChannels + c], FullScale)]]]

\* the bytes of the inputs: zero, a small value, and the two that set the
\* sign bit of a sample
ByteValues == {0, 1, 128, 255}

\* decodeBase64(base64), audioUtils.ts:2-10: a fresh Uint8Array
InitDecode ==
  \E n \in 0..MaxBytes, numChannels \in 1..MaxChannels :
    \E data \in [1..n -> ByteValues] :
      draw = [op |-> "decode", data |-> data, numChannels |-> numChannels,
              done |-> FALSE, out |-> <<>>]

\* decodeAudioData(bytes, ctx, 24000, numChannels), ScriptStep.tsx:259
DecodeAudioData ==
  /\ draw.op = "decode" /\ ~draw.done
  /\ draw' = [draw EXCEPT
                !.done = TRUE,
                !.out = decodeAudioData(draw.data, draw.numChannels)]
  /\ UNCHANGED Sequencer

(* ======================= specification ======================= *)

SceneLists ==
  UNION {[1..n -> [audioBuffer : BOOLEAN]] : n \in 0..MaxScenes}

\* the state of a component that has just been mounted
InitComponent ==
  /\ isPlaying = FALSE
  /\ currentSceneIdx = 0
  /\ isExporting = FALSE
  /\ isExportingRef = FALSE
  /\ audioSourceRef = "null"
  /\ exportDestRef = NULL
  /\ mediaRecorderRef = NULL
  /\ recordedChunksRef = <<>>
  /\ playbackSpeed = DefaultSpeed
  /\ resolution = DefaultResolution
  /\ fps = DefaultFps
  /\ showSettings = FALSE
  /\ sessions = <<>>
  /\ pending = EmptyBag
  /\ lastUser = [op |-> "none", arg |-> 0]
  /\ lastEv = [op |-> "none", scene |-> 0, natural |-> FALSE, cur |-> FALSE,
               calls |-> <<>>, changed |-> FALSE]
  /\ pass = [clean |-> FALSE, trace |-> <<>>, done |-> FALSE]

\* a component mounted on generated scenes
InitProgram ==
  /\ appState = "PREVIEW"
  /\ component \in {"Player", "VideoPlayer"}
  /\ scenes \in SceneLists
  /\ audioCtxState \in {"suspended", "running"}
  /\ InitComponent

Next ==
  \/ TogglePlay
  \/ \E j \in 0..(N - 1) : Seek(j)
  \/ Restart
  \/ \E f \in ExportFailures : HandleExport(f)
  \/ \E r \in BagToSet(pending) : SourceOnEnded(r)
  \/ \E r \in BagToSet(pending) : FallbackTimeout(r)
  \/ \E r \in BagToSet(pending) : ExportStartTimeout(r)
  \/ \E k \in 1..Len(sessions) : RecorderDataAvailable(k)
  \/ \E k \in 1..Len(sessions) : RecorderOnStop(k)
  \/ VP_HandlePlayPause
  \/ \E j \in 0..(N - 1) : VP_Seek(j)
  \/ VP_Restart
  \/ \E f \in ExportFailures : VP_HandleExportVideo(f)
  \/ \E r \in BagToSet(pending) : VP_SourceOnEnded(r)
  \/ \E r \in BagToSet(pending) : VP_FallbackTimeout(r)
  \/ \E k \in 1..Len(sessions) : VP_RecorderDataAvailable(k)
  \/ \E k \in 1..Len(sessions) : VP_RecorderOnStop(k)

NoDraw == [op |-> "none"]

\* the program alone
\* InitProgram leaves the runtime open; Init takes the runtime that supports
\* both types.  With another runtime the recorder constructor throws, which
\* ExportFailures covers ("MediaRecorder").
Init ==
  /\ InitProgram
  /\ typeSupported = MimeTypes
  /\ hist = FALSE
  /\ draw = NoDraw

Spec == Init /\ [][Next]_vars

\* the program with its history recorded
InitHist ==
  /\ InitProgram
  /\ typeSupported = MimeTypes
  /\ hist = TRUE
  /\ draw = NoDraw

SpecHist == InitHist /\ [][Next]_vars

\* the frame compositor alone: one drawing call on a mounted, idle player
NextDraw ==
  \/ DrawImageCover
  \/ DrawSubtitles
  \/ DrawFrame
  \/ DrawScene
  \/ ImageOnLoad

InitCompositor ==
  /\ InitProgram
  /\ typeSupported = MimeTypes
  /\ hist = FALSE
  /\ InitDraw
  /\ scenes = <<>>
  /\ audioCtxState = "running"

SpecDraw == InitCompositor /\ [][NextDraw]_vars

\* the export settings: Next leaves the settings menu closed and the
\* settings at their defaults; NextExport adds the menu
NextExport ==
  \/ Next
  \/ ToggleSettings
  \/ \E r \in Resolutions : SetResolution(r)
  \/ \E f \in FrameRates : SetFps(f)
  \/ VP_ToggleSettings
  \/ \E res \in Resolutions : VP_SetResolution(res)
  \/ \E f \in FrameRates : VP_SetFps(f)

SpecExport == Init /\ [][NextExport]_vars

\* the program on any runtime
InitCodec ==
  /\ InitProgram
  /\ typeSupported \in SUBSET MimeTypes
  /\ hist = FALSE
  /\ draw = NoDraw

SpecCodec == InitCodec /\ [][Next]_vars

\* the render loop: VideoPlayer as mounted, its effect having run once
InitLoop ==
  /\ InitProgram
  /\ component = "VideoPlayer"
  /\ typeSupported = MimeTypes
  /\ hist = FALSE
  /\ audioCtxState = "running"
  /\ draw = renderLoop([op |-> "loop", frames |-> {}, ref |-> 0],
                       0, DefaultResolution)

NextLoop ==
  \/ \E f \in draw.frames : RenderFrame(f)
  \/ VP_HandlePlayPause
  \/ \E j \in 0..(N - 1) : VP_Seek(j)
  \/ VP_Restart
  \/ VP_ToggleSettings
  \/ \E res \in Resolutions : VP_SetResolution(res)
  \/ \E f \in ExportFailures : VP_HandleExportVideo(f)
  \/ \E r \in BagToSet(pending) : VP_SourceOnEnded(r)
  \/ \E r \in BagToSet(pending) : VP_FallbackTimeout(r)
  \/ \E k \in 1..Len(sessions) : VP_RecorderDataAvailable(k)
  \/ \E k \in 1..Len(sessions) : VP_RecorderOnStop(k)

SpecLoop == InitLoop /\ [][NextLoop]_vars

\* content generation alone: one call of generateStoryContent
NextGen ==
  \/ \E img \in Failures \cup ImagePayloads,
        aud \in Failures \cup AudioPayloads : GenerateScene(img, aud)
  \/ GenerateReturn

InitGen ==
  /\ InitProgram
  /\ component = "Player"
  /\ typeSupported = MimeTypes
  /\ hist = FALSE
  /\ InitGenerate
  /\ scenes = <<>>
  /\ audioCtxState = "running"

SpecGen == InitGen /\ [][NextGen]_vars

\* the script step alone: one edit of a scene
NextEdit == HandleSceneChange

InitScriptStep ==
  /\ InitProgram
  /\ component = "Player"
  /\ typeSupported = MimeTypes
  /\ hist = FALSE
  /\ InitEdit
  /\ scenes = <<>>
  /\ audioCtxState = "running"

SpecEdit == InitScriptStep /\ [][NextEdit]_vars

\* PCM decoding alone: one call of decodeAudioData
NextDecode == DecodeAudioData

InitDecoder ==
  /\ InitProgram
  /\ component = "Player"
  /\ typeSupported = MimeTypes
  /\ hist = FALSE
  /\ InitDecode
  /\ scenes = <<>>
  /\ audioCtxState = "running"

SpecDecode == InitDecoder /\ [][NextDecode]_vars

NextReset == Next \/ Reset

\* the application: App mounts the Player on the scenes it generated
NextApp ==
  \/ InitAudio
  \/ HandleGenerate
  \/ \E generatedScenes \in SceneLists : GenerateResolved(generatedScenes)
  \/ GenerateRejected
  \/ Reset
  \/ TogglePlay
  \/ \E j \in 0..(N - 1) : Seek(j)
  \/ Restart
  \/ \E f \in ExportFailures : HandleExport(f)
  \/ \E r \in BagToSet(pending) : SourceOnEnded(r)
  \/ \E r \in BagToSet(pending) : FallbackTimeout(r)
  \/ \E r \in BagToSet(pending) : ExportStartTimeout(r)
  \/ \E k \in 1..Len(sessions) : RecorderDataAvailable(k)
  \/ \E k \in 1..Len(sessions) : RecorderOnStop(k)

InitApp ==
  /\ appState = "INPUT"
  /\ component = "Player"
  /\ scenes = <<>>
  /\ audioCtxState = "null"
  /\ InitComponent
  /\ typeSupported = MimeTypes
  /\ hist = FALSE
  /\ draw = NoDraw

SpecApp == InitApp /\ [][NextApp]_vars

SpecReset == Init /\ [][NextReset]_vars

\* Next leaves the playback speed at its default; NextSpeed adds the speed
\* buttons.  The speed is data only (no handler branches on it), so the
\* runs of SpecSpeed are the runs of Spec with the speeds varied.
NextSpeed ==
  \/ Next
  \/ \E v \in Speeds : SetPlaybackSpeed(v)

SpecSpeed == Init /\ [][NextSpeed]_vars


(* ============================= claims ============================= *)

Sources(p) == {r \in DOMAIN p : r.kind = "source"}

\* the sources that are started and not stopped, counted with multiplicity
Playing(p) == {r \in Sources(p) : r.st = "playing"}

NumPlaying(p) ==
  LET Sum[T \in SUBSET Playing(p)] ==
        IF T = {} THEN 0
        ELSE LET r == CHOOSE x \in T : TRUE IN p[r] + Sum[T \ {r}]
  IN  Sum[Playing(p)]

\* C1: a pass started at scene 0 from rest, with no further user action,
\* starts the scenes 0, 1, ..., N-1 in that order, each once, and then ends
\* with the playing flag false and the cursor back at 0.
C1_FullPass ==
  (pass.clean /\ N >= 1) =>
    LET L == Len(pass.trace) IN
      /\ L <= N
      /\ \A i \in 1..L : pass.trace[i] = i - 1
      /\ ~pass.done => L >= 1 /\ currentSceneIdx = L - 1
      /\ pass.done => L = N /\ ~isPlaying /\ currentSceneIdx = 0

\* C1 on the Player component alone
C1_FullPass_Player == component = "Player" => C1_FullPass

\* C2: at most one audio source is started and not stopped, and it is the
\* one the ref names (so that the next start stops it first).
C2_OneActiveSource ==
  /\ NumPlaying(pending) <= 1
  /\ \A r \in Playing(pending) : r.held /\ audioSourceRef = "node"

\* C2 witness: a source was stopped (its ended event is still to come) and
\* the next one was started.
C2_Witness ==
  /\ NumPlaying(pending) = 1
  /\ \E r \in Sources(pending) : r.st = "stopped"

\* C3: an ended notification caused by the sequencer's own stop of the
\* source never calls playScene.
C3_StopIsNotEnd ==
  (lastEv.op = "ended" /\ ~lastEv.natural) => lastEv.calls = <<>>

\* C4: after a pause at scene i the playing flag is false, no source is
\* active and the cursor stays at i until the next user action.
C4_PauseHolds ==
  lastUser.op = "pause" =>
    /\ ~isPlaying
    /\ currentSceneIdx = lastUser.arg
    /\ NumPlaying(pending) = 0

\* C5: after a seek to scene j, for as long as scene j's own source or timer
\* has not completed, the cursor is j and scene j is the one playing.
C5_SeekHolds ==
  \A r \in DOMAIN pending :
    (lastUser.op = "seek" /\ r.cur /\ r.scene = lastUser.arg) =>
       /\ currentSceneIdx = lastUser.arg
       /\ r.kind = "source" => r.st = "playing"


Recording == {k \in 1..Len(sessions) : sessions[k].rec = "recording"}

C7_OneFullPass == \A k \in 1..Len(sessions) : sessions[k].ok

\* C8: when a callback reaches the end of the scene list, no recorder is
\* left recording.
C8_EndStopsRecorder ==
  (lastEv.op \in {"ended", "timeout"} /\ ReachedEnd(lastEv.calls)) =>
    Recording = {}

\* C8 on the Player component alone
C8_EndStopsRecorder_Player == component = "Player" => C8_EndStopsRecorder

Failed(x) ==
  \/ x.rec = "none"
  \/ x.rec = "inactive" /\ x.ev = "none" /\ x.files = <<>>

\* C10: an export whose capture initialisation threw leaves the exporting
\* flag (state and ref) cleared.
C10_InitFailureClearsFlag ==
  \A k \in 1..Len(sessions) :
    Failed(sessions[k]) => ~isExporting /\ ~isExportingRef


\* C11: a source that is started (in a step that is not a speed change) is
\* started at the playback speed current at that moment.
C11_StartAtCurrentSpeed ==
  [][playbackSpeed' = playbackSpeed =>
       \A r \in Playing(pending') :
         CopiesIn(r, pending') > CopiesIn(r, pending) =>
           r.rate = playbackSpeed']_vars

ZeroRate(r) == [r EXCEPT !.rate = 0]

\* C12: a speed change sets the rate of the running source to the new speed
\* in place: cursor, playing flag and ref are unchanged, no source or timer
\* is stopped, created or altered in anything but that rate.
C12_SpeedInPlace ==
  [][playbackSpeed' # playbackSpeed =>
       /\ currentSceneIdx' = currentSceneIdx
       /\ isPlaying' = isPlaying
       /\ audioSourceRef' = audioSourceRef
       /\ MapBag(pending', ZeroRate) = MapBag(pending, ZeroRate)
       /\ \A r \in Playing(pending') : r.held => r.rate = playbackSpeed'
       /\ \A r \in DOMAIN pending' :
            ~(r.held /\ r.kind = "source") => r \in DOMAIN pending]_vars

\* C12 witness: a source that was started at one speed is playing at
\* another, the current one
C12_Witness ==
  \E r \in Playing(pending) :
    r.held /\ r.rate = playbackSpeed /\ r.rate # r.capSpeed

\* the fallback duration of the mounted component
FallbackOf == IF component = "Player" THEN FallbackMs ELSE VPFallbackMs

\* C13: a silent scene is held for the fallback duration divided by the
\* speed multiplier in force while it is held.
C13_FallbackDelay ==
  \A r \in DOMAIN pending :
    r.kind = "timer" => r.delay * playbackSpeed = FallbackOf * 100


\* C14: a fallback timer that was scheduled before the latest user action
\* (play, pause, seek, restart, export start) and fires after it does not
\* change the cursor and does not start or stop a source.
C14_StaleTimerInert ==
  (lastEv.op = "timeout" /\ ~lastEv.cur) => ~lastEv.changed


\* the settling delay of an export is running: playScene(0) is still to come
Settling == \E r \in DOMAIN pending : r.kind = "exportStart"

\* C15: from export start until the sequencer is started at scene 0 after
\* the settling delay, the cursor is 0 and no audio source is active.
C15_QuietSettle ==
  Settling => currentSceneIdx = 0 /\ NumPlaying(pending) = 0


\* C16: a source is started (scheduled) only on a device that has been
\* resumed: while a started source exists the device is not suspended.
C16_ResumedBeforeStart ==
  NumPlaying(pending) > 0 => audioCtxState = "running"


\* the started sources that are connected to a capture node
Tapped(p) == {r \in Playing(p) : r.tap # NULL}

\* C17: while an export is active every started source is connected to the
\* capture node of that export and at most one source is connected; while
\* no export is active no started source is connected to a capture node.
C17_CaptureTap ==
  /\ isExporting =>
       /\ \A r \in Playing(pending) : r.tap # NULL /\ r.tap = exportDestRef
       /\ \A r \in Tapped(pending) : pending[r] = 1 /\ Tapped(pending) = {r}
  /\ ~isExporting => Tapped(pending) = {}


RECURSIVE Flatten(_)
Flatten(lines) ==
  IF lines = <<>> THEN <<>> ELSE Head(lines) \o Flatten(Tail(lines))

\* every word is on a line, once, in order, and no line is empty
AllPlaced ==
  /\ Flatten(draw.out) = draw.words
  /\ \A i \in 1..Len(draw.out) : draw.out[i] # <<>>

\* C19 as stated: every line measures at most the max width, except a line
\* of a single word that is by itself wider than the max width; no word is
\* dropped.
C19_LineFits ==
  (draw.op = "wrap" /\ draw.done) =>
    /\ AllPlaced
    /\ \A i \in 1..Len(draw.out) :
         LET line == draw.out[i] IN
           \/ measureText(line, draw.space) <= draw.maxWidth
           \/ Len(line) = 1 /\ line[1] > draw.maxWidth

\* C19: every line measures at most the max width, except a line of a
\* single word that with its trailing space is wider than the max width;
\* no word is dropped.
C19_LineFitsWithSpace ==
  (draw.op = "wrap" /\ draw.done) =>
    /\ AllPlaced
    /\ \A i \in 1..Len(draw.out) :
         LET line == draw.out[i] IN
           \/ measureText(line, draw.space) <= draw.maxWidth
           \/ Len(line) = 1 /\ line[1] + draw.space > draw.maxWidth

\* C19 witness: a subtitle was wrapped onto several lines, one of them a
\* single word wider than the max width
C19_Witness ==
  /\ draw.op = "wrap" /\ draw.done
  /\ Len(draw.out) >= 2
  /\ \E i \in 1..Len(draw.out) :
       Len(draw.out[i]) = 1 /\ draw.out[i][1] > draw.maxWidth
  /\ \E i \in 1..Len(draw.out) : Len(draw.out[i]) >= 2

\* C20: start over releases the playback core.  Once the application has
\* left the preview (the Start Over button was pressed and the Player was
\* unmounted) no audio source is playing, and no ended callback or fallback
\* timer of the old run makes a scene transition: no step starts a source
\* or a fallback timer.
C20_ResetReleases ==
  [][appState' = "INPUT" =>
       /\ NumPlaying(pending') = 0
       /\ \A r \in DOMAIN pending' :
            CopiesIn(r, pending') <= CopiesIn(r, pending)]_vars

C22_CodecFallback ==
  \A k \in 1..Len(sessions) :
    ("video/webm;codecs=vp9" \notin typeSupported
       /\ sessions[k].mimeType # "none") =>
      /\ sessions[k].mimeType = "video/webm"
      /\ "video/webm" \in typeSupported =>
            sessions[k].thrown # "NotSupportedError"

\* an export on a runtime without vp9 recorded and downloaded its file
C22_Witness ==
  /\ typeSupported = {"video/webm"}
  /\ \E k \in 1..Len(sessions) :
       /\ sessions[k].mimeType = "video/webm"
       /\ sessions[k].files # <<>>

\* the name an export of the mounted component downloads under the settings
\* (res, rate)
DownloadOf(res, rate) ==
  IF component = "Player" THEN download(res, rate) ELSE VP_download(res, rate)

\* C23: the download name is a deterministic function of the resolution and
\* the frame rate of the export and encodes both.  The name of every
\* downloaded file is the name of its session's settings, and an export with
\* another resolution or another frame rate has another name.
C23_NameEncodesSettings ==
  \A k \in 1..Len(sessions) : \A i \in 1..Len(sessions[k].names) :
    \A res \in Resolutions, rate \in FrameRates :
      DownloadOf(res, rate) = sessions[k].names[i]
        <=> (res = sessions[k].resolution /\ rate = sessions[k].fps)

\* the scene of the drawing call has none of the visual fields the mounted
\* component reads
NoAsset ==
  IF component = "Player" THEN ~draw.scene.imageData
  ELSE ~draw.scene.video /\ ~draw.scene.image

\* C24: a scene without a visual asset still gets a frame: the black fill,
\* then the gradient, then the word-wrapped subtitle.
C24_SubtitlesWithoutAsset ==
  (draw.op = "frame" /\ draw.done /\ NoAsset) =>
    draw.out = <<Layer("fill", <<>>, <<>>)>>
                 \o drawSubtitles(draw.words, draw.maxWidth, draw.space)

\* C25: a video that is not ready (intrinsic width 0 or ready state below
\* 2) is skipped for the tick: the frame is the black fill followed by the
\* subtitle layers, with no asset layer and so no rectangle computed from
\* the video's dimensions.
C25_SkipsUnreadyVideo ==
  (/\ draw.op = "frame" /\ draw.done
   /\ component = "VideoPlayer"
   /\ draw.scene.video
   /\ draw.videoWidth = 0 \/ draw.readyState < 2) =>
    /\ draw.out = <<Layer("fill", <<>>, <<>>)>>
                    \o drawSubtitles(draw.words, draw.maxWidth, draw.space)
    /\ \A i \in 1..Len(draw.out) : draw.out[i].layer # "asset"

\* C25 witness: a tick drew a scene whose video has a width but has not
\* loaded a frame yet, with a subtitle of two lines
C25_Witness ==
  /\ draw.op = "frame" /\ draw.done
  /\ component = "VideoPlayer"
  /\ draw.scene.video
  /\ draw.videoWidth > 0 /\ draw.readyState < 2
  /\ Len(draw.out) = 3
  /\ Len(draw.out[3].lines) = 2

\* the step is a run of an export handler
ExportRequested == ~isExporting /\ isExporting'

\* the callbacks alive before the step, as the handler that runs in the
\* step finds them once it has forgotten the sessions that are over
Before == U.pending

\* the step started a source or scheduled a timer
StartedSome ==
  \E r \in DOMAIN pending' :
    /\ r.kind = "source" => r.st = "playing" /\ r.held
    /\ CopiesIn(r, pending') > CopiesIn(r, Before)

\* C26: the recorder is started before the export pass.  A run of an export
\* handler starts a source or schedules a timer (the delayed start of scene
\* 0 included), or moves the cursor elsewhere than to 0, only if it has
\* called recorder.start() before: the recorder of the new session is
\* recording.
C26_RecorderFirst ==
  [][ExportRequested =>
       \/ sessions'[Len(sessions')].rec = "recording"
       \/ /\ ~StartedSome
          /\ currentSceneIdx' \in {0, currentSceneIdx}]_vars

\* C26 witness: an export is recording and its pass is scheduled or runs
C26_Witness ==
  /\ isExporting
  /\ mediaRecorderRef # NULL
  /\ RecorderState(S, mediaRecorderRef) = "recording"
  /\ \/ Settling
     \/ \E r \in Playing(pending) : r.scene = 0 /\ r.tap = mediaRecorderRef

\* C27: after the recorder's stop handler has run the export-scoped
\* resources are released: the capture destination ref is null and the
\* list of buffered chunks is empty.
C27_StopReleases ==
  lastEv.op = "onstop" =>
    /\ exportDestRef = NULL
    /\ recordedChunksRef = <<>>

\* C28: the end of the last scene stops the sequencer in the same state
\* whether the scene had audio (ended event) or was silent (fallback
\* timer): when the callback of the last scene of the running chain has run
\* at the natural end of the scene, the playing flag is false and the
\* cursor is 0.
C28_SameStop ==
  (/\ lastEv.op \in {"ended", "timeout"}
   /\ lastEv.natural /\ lastEv.cur
   /\ lastEv.scene = N - 1) =>
    ~isPlaying /\ currentSceneIdx = 0

\* C29: the resolution and the frame rate of an export session are the
\* values read at export start and stay fixed for the session: while the
\* recorder of a session records, the resolution and the frame rate of the
\* component are those the session was made with.
C29_SettingsFixed ==
  \A k \in 1..Len(sessions) :
    sessions[k].rec = "recording" =>
      /\ resolution = sessions[k].resolution
      /\ fps = sessions[k].fps

\* C30: the application state machine.  The state leaves INPUT only for
\* GENERATING and only with an audio context; it leaves GENERATING only for
\* PREVIEW (the content arrived) or INPUT (the generation threw; nothing is
\* retried); it leaves PREVIEW only for INPUT; and the Player is mounted
\* only in PREVIEW with a non-null audio context: PREVIEW is entered with an
\* audio context only, and outside PREVIEW the state of the Player does not
\* change.
C30_AppStates ==
  [][/\ appState' # appState =>
          <<appState, appState'>> \in {<<"INPUT", "GENERATING">>,
                                       <<"GENERATING", "PREVIEW">>,
                                       <<"GENERATING", "INPUT">>,
                                       <<"PREVIEW", "INPUT">>}
     /\ (appState = "INPUT" /\ audioCtxState = "null") => appState' = "INPUT"
     /\ appState' = "PREVIEW" => audioCtxState' # "null"
     /\ (appState # "PREVIEW" /\ appState' # "PREVIEW") =>
          UNCHANGED <<isPlaying, currentSceneIdx, isExporting, playbackSpeed,
                      resolution, fps, showSettings>>]_vars

\* C30 witness: a generation succeeded and the Player mounted on its scenes
\* is playing
C30_Witness ==
  /\ appState = "PREVIEW"
  /\ scenes # <<>>
  /\ isPlaying
  /\ NumPlaying(pending) = 1

\* C31: the cursor is a valid scene index in every reachable state, after
\* any interleaving of user actions, ended callbacks and timer callbacks:
\* 0 <= currentSceneIdx < N when the list has scenes, and 0 when it is empty.
C31_CursorValid ==
  IF N = 0 THEN currentSceneIdx = 0 ELSE currentSceneIdx \in 0..(N - 1)

\* C31 witness: the cursor is on the last scene of a list of two, whose
\* source or timer is alive, and a callback of an earlier chain is alive too
C31_Witness ==
  /\ N = 2
  /\ currentSceneIdx = N - 1
  /\ \E r \in DOMAIN pending : r.scene = N - 1 /\ r.kind # "exportStart"
  /\ BagCardinality(pending) = 2

\* a silent scene is being held: its fallback timer is still to fire
Holding(p) == {r \in DOMAIN p : r.kind = "timer"}

\* C32: the playing flag agrees with the sequencer: while an audio source
\* is active or a fallback hold is pending the playing flag is true, also
\* after a seek or a restart issued while paused.
C32_FlagAgrees ==
  (NumPlaying(pending) > 0 \/ Holding(pending) # {}) => isPlaying

\* the controls of the mounted component: a step a user can take
UserAction ==
  \/ TogglePlay
  \/ \E j \in 0..(N - 1) : Seek(j)
  \/ Restart
  \/ Reset
  \/ ToggleSettings
  \/ \E r \in Resolutions : SetResolution(r)
  \/ \E f \in FrameRates : SetFps(f)
  \/ \E v \in Speeds : SetPlaybackSpeed(v)
  \/ \E f \in ExportFailures : HandleExport(f)
  \/ VP_HandlePlayPause
  \/ \E j \in 0..(N - 1) : VP_Seek(j)
  \/ VP_Restart
  \/ VP_ToggleSettings
  \/ \E res \in Resolutions : VP_SetResolution(res)
  \/ \E f \in FrameRates : VP_SetFps(f)
  \/ \E f \in ExportFailures : VP_HandleExportVideo(f)

\* C33: while the exporting flag is set no user action that would disturb
\* the pass is enabled: play / pause, seek, restart, start over, settings
\* changes and a second export are all disabled until the recorder's stop
\* handler has cleared the flag.
C33_ControlsDisabled == isExporting => ~ENABLED UserAction

\* C34: word wrap loses nothing.  For every subtitle the lines returned,
\* concatenated in order, are exactly the words of the input (the pieces
\* between its spaces) in their original order, each once; and at least one
\* line is returned.
C34_WrapLosesNothing ==
  (draw.op = "wrap" /\ draw.done) =>
    /\ Flatten(draw.out) = draw.words
    /\ Len(draw.out) >= 1

\* C34 witness: three words that measure differently were wrapped onto two
\* lines or more
C34_Witness ==
  /\ draw.op = "wrap" /\ draw.done
  /\ Len(draw.words) = 3
  /\ Cardinality({draw.words[i] : i \in 1..3}) = 3
  /\ Len(draw.out) >= 2

\* C35: the file built at recorder stop consists of exactly the non-empty
\* chunks the session's own recorder delivered, in delivery order; no chunk
\* of an earlier export session is in it, however many exports went before.
C35_OwnChunksOnly ==
  \A k \in 1..Len(sessions) : \A i \in 1..Len(sessions[k].files) :
    sessions[k].files[i] = sessions[k].delivered

\* C35 witness: an export that followed an earlier one (a source that was
\* connected to the earlier capture node has still to deliver its ended
\* event) has downloaded a file with the chunk of its recorder
C35_Witness ==
  /\ \E r \in DOMAIN pending : r.tap = Old
  /\ \E k \in 1..Len(sessions) : sessions[k].files = <<(<<k>>)>>

\* C36: the render loop keeps exactly one pending frame callback.  Whether
\* the player is playing, paused or exporting there is one frame callback
\* requested, the one animationFrameRef names, and it belongs to the loop of
\* the current render (its cursor and canvas size): when the cursor, the
\* scene list or the canvas size changes the old loop is cancelled before
\* the new one starts, so two loops never run at once.
C36_OneRenderLoop ==
  draw.op = "loop" =>
    /\ Cardinality(draw.frames) = 1
    /\ \A f \in draw.frames :
         /\ f.id = draw.ref
         /\ f.scene = currentSceneIdx
         /\ f.resolution = resolution

\* C36 witness: during an export at the other resolution the loop was
\* re-bound to the second scene, whose frame callback is pending
C36_Witness ==
  /\ draw.op = "loop"
  /\ isExporting /\ isPlaying
  /\ resolution # DefaultResolution
  /\ currentSceneIdx = 1
  /\ \E f \in draw.frames : f.scene = 1 /\ f.resolution = resolution

\* the scene that generation makes of script item i when its requests came
\* to the outcomes o: the failed asset is absent, the other is present
Generated(item, i, o) ==
  [id |-> i - 1, text |-> item.narration, narration |-> item.narration,
   imagePrompt |-> item.imagePrompt, visual_prompt |-> item.imagePrompt,
   imageData |-> IF o[1] \in Failures THEN "undefined"
                 ELSE "data:image/png;base64," \o o[1],
   image |-> IF o[1] \in Failures THEN "undefined"
             ELSE "data:image/png;base64," \o o[1],
   audioBuffer |-> IF o[2] \in Failures THEN "undefined" ELSE "AudioBuffer"]

\* C37: generateStoryContent returns the scenes in script order, as many as
\* the script has, with id equal to the position 0..n-1; a scene whose image
\* or audio request failed is still there with the failed asset absent, and
\* the scenes after it are still generated (the call is never rejected by an
\* asset failure).
C37_GenerationKeepsScenes ==
  draw.op = "generate" =>
    /\ ~draw.rejected
    /\ Len(draw.processedScenes) = draw.i
    /\ \A k \in 1..Len(draw.processedScenes) :
         draw.processedScenes[k]
           = Generated(draw.script[k], k, draw.outcomes[k])
    /\ draw.done =>
         /\ draw.returned = draw.processedScenes
         /\ Len(draw.returned) = Len(draw.script)

\* C37 witness: a call returned two scenes; the image request of the first
\* threw and its audio request came back empty, the second has both assets
C37_Witness ==
  /\ draw.op = "generate" /\ draw.done
  /\ Len(draw.returned) = 2
  /\ draw.outcomes[1] = <<"throws", "empty">>
  /\ draw.returned[1].imageData = "undefined"
  /\ draw.returned[2].imageData # "undefined"
  /\ draw.returned[2].audioBuffer # "undefined"
  /\ draw.returned[2].id = 1

\* C38: an edit in the script step changes only the named field of the
\* scene whose id matches.  The list handed to onUpdateScenes has the same
\* length and order, every other scene is the same record, every other
\* field of the edited scene is unchanged, and an id that matches no scene
\* gives an identical list.
C38_EditOneField ==
  (draw.op = "edit" /\ draw.done) =>
    /\ Len(draw.updated) = Len(draw.scenes)
    /\ \A i \in 1..Len(draw.scenes) :
         IF draw.scenes[i].id = draw.id
         THEN /\ draw.updated[i][draw.field] = draw.value
              /\ DOMAIN draw.updated[i] = DOMAIN draw.scenes[i]
              /\ \A g \in DOMAIN draw.scenes[i] \ {draw.field} :
                   draw.updated[i][g] = draw.scenes[i][g]
         ELSE draw.updated[i] = draw.scenes[i]
    /\ (\A i \in 1..Len(draw.scenes) : draw.scenes[i].id # draw.id) =>
         draw.updated = draw.scenes

\* C38 witness: the narration of the second of two scenes was changed
C38_Witness ==
  /\ draw.op = "edit" /\ draw.done
  /\ Len(draw.scenes) = 2
  /\ draw.id = 1 /\ draw.field = "narration"
  /\ draw.updated[2].narration # draw.scenes[2].narration
  /\ draw.updated[1] = draw.scenes[1]

\* ceil(len / 2) for the input of the call
HalfUp == (Len(draw.data) + 1) \div 2

\* byte k of the input, 0 past its end (the padding)
ByteAt(k) == IF k <= Len(draw.data) THEN draw.data[k] ELSE 0

\* the samples read are the ceil(len / 2) 16-bit samples of the input, an
\* odd input padded with one zero byte
SamplesRead ==
  /\ Len(draw.out.samples) = HalfUp
  /\ \A j \in 1..HalfUp :
       draw.out.samples[j] = Int16(ByteAt(2 * j - 1), ByteAt(2 * j))

\* sample i of channel c is input sample i * numChannels + c (scaled by
\* 1 / 32768); with one channel the frames are all the samples, in order
Deinterleaved ==
  /\ Len(draw.out.channels) = draw.numChannels
  /\ \A c \in 1..draw.numChannels :
       \A i \in 1..Len(draw.out.channels[c]) :
         draw.out.channels[c][i]
           = Frac(draw.out.samples[(i - 1) * draw.numChannels + c],
                  FullScale)
  /\ draw.numChannels = 1 => Len(draw.out.channels[1]) = HalfUp

\* C39 as stated: for every input decodeAudioData returns a buffer made of
\* the ceil(len / 2) samples of the padded input, de-interleaved; with one
\* channel it has exactly ceil(len / 2) frames in input order.
C39_Decode ==
  (draw.op = "decode" /\ draw.done) =>
    /\ draw.out.thrown = "none"
    /\ SamplesRead
    /\ Deinterleaved

\* C39: the same for an input that holds at least one frame (numChannels
\* samples); an input that holds none (the empty input, with one channel)
\* makes createBuffer throw, and no buffer is returned.
C39_DecodeNonEmpty ==
  (draw.op = "decode" /\ draw.done) =>
    /\ SamplesRead
    /\ IF HalfUp >= draw.numChannels
       THEN /\ draw.out.thrown = "none"
            /\ Deinterleaved
            /\ \A c \in 1..draw.numChannels :
                 Len(draw.out.channels[c]) = HalfUp \div draw.numChannels
       ELSE draw.out.thrown = "NotSupportedError"

\* C39 witness: three bytes were decoded into one channel of two frames,
\* the first negative, the second made of the last byte and the padding
C39_Witness ==
  /\ draw.op = "decode" /\ draw.done
  /\ Len(draw.data) = 3 /\ draw.numChannels = 1
  /\ draw.data[3] # 0
  /\ draw.out.thrown = "none"
  /\ Len(draw.out.channels[1]) = 2
  /\ draw.out.channels[1][1][1] < 0
  /\ draw.out.channels[1][2] = Frac(draw.data[3], FullScale)

====
